---- MODULE Spec2Model ----
(***************************************************************************)
(* rpc::EventManager (src/src/eventmanager.cc): an epoll based reactor.    *)
(* A pool of worker threads runs thread_main against one epoll instance,   *)
(* one eventfd used as wakeup channel, a heap of timed tasks and a table   *)
(* of fd watches, all guarded by one mutex.                                *)
(*                                                                         *)
(* Threads are integers: worker threads are the pthread ids 1..MaxWorkers, *)
(* MainThread is a thread that is never a worker.  A step of the model is  *)
(* what one thread does between two points where it can block or where     *)
(* another thread can observe it: taking the mutex, the code up to the     *)
(* next unlock, the return of epoll_wait, the entry of a callback, the     *)
(* return of pthread_join.                                                 *)
(***************************************************************************)
EXTENDS Integers, Sequences, FiniteSets, TLC

(* ------------------------------ bounds -------------------------------- *)
MaxWorkers == 2      \* pthread ids available to pthread_create
MaxTasks == 3        \* enqueue calls over one behaviour
LifeTasks == 1       \* of them, in the behaviours that stop the reactor
MaxWatch == 2        \* watchFd calls over one behaviour
MaxBytes == 1        \* bytes written to the watched pipe over one behaviour
MaxTicks == 2        \* clock ticks over one behaviour
MaxCount == 2        \* value at which the eventfd counter saturates

(* ------------------------- program constants -------------------------- *)
kEpollDefaultWait == 10000
kMaxEvents == 32
EPOLLIN == 1
EPOLLOUT == 4

MainThread == 0
NoOwner == -1
EventFd == 0
Workers == 1..MaxWorkers
\* seconds per clock tick: half the default wait
TickSec == kEpollDefaultWait \div 2000
Fds == {1}
Masks == {EPOLLIN, EPOLLOUT}
Whens == {-1} \cup {k * TickSec : k \in 0..(MaxTicks - 1)}

NoCall == [op |-> "idle"]
NoCur == [kind |-> "none"]

VARIABLES
  is_running,   \* _is_running
  tasks,        \* _tasks: the heap, a sequence of [when, id]
  fds,          \* _fds: <<fd, flags>> -> callback
  thread_set,   \* _thread_set
  mutex,        \* owner of _mutex, or NoOwner
  epoll,        \* interest list of _epoll_fd: fd -> registered mask, 0 = absent
  event_cnt,    \* counter of _event_fd
  pipe,         \* unread bytes of each watched descriptor
  now,          \* currentTime(), in seconds
  pc,           \* position of each worker thread
  wakeAt,       \* time at which a worker's epoll_wait times out
  ret,          \* thread_main's ret
  events,       \* thread_main's events[0..ret)
  idx,          \* thread_main's loop index i
  cur,          \* the Task t or the function f a worker copied out
  call,         \* the public call each thread is in
  nextTask,     \* identity of the next closure passed to enqueue
  nextWatch,    \* identity of the next closure passed to watchFd
  ran,          \* history: invocations of each task
  fired,        \* history: invocations of the callbacks of each descriptor
  written,      \* history: bytes written to each descriptor
  droppedTasks, \* history: tasks that stop() cleared out of the heap
  droppedFds,   \* history: callbacks that stop() cleared out of the table
  removed,      \* history: callbacks that removeFd erased from the table
  together      \* history: <<a, b>>: tasks a and b were in the heap at the
                \* same moment, a with the strictly earlier deadline

vars == <<is_running, tasks, fds, thread_set, mutex, epoll, event_cnt, pipe,
          now, pc, wakeAt, ret, events, idx, cur, call, nextTask, nextWatch,
          ran, fired, written, droppedTasks, droppedFds, removed, together>>

hist == <<ran, fired, written, droppedTasks, droppedFds, removed, together>>
wlocals == <<wakeAt, ret, events, idx, cur>>

(* ------------------------------ helpers ------------------------------- *)
Min(a, b) == IF a < b THEN a ELSE b

\* a & b for masks built from EPOLLIN and EPOLLOUT
BitAnd(a, b) == ((a % 2) * (b % 2)) + 4 * (((a \div 4) % 2) * ((b \div 4) % 2))

\* eventfd_write(_event_fd, 1) on a non-blocking eventfd: the add fails with
\* EAGAIN, and is ignored, once the counter is at its maximum
eventfd_write(c) == Min(c + 1, MaxCount)

Swap(s, i, j) == [s EXCEPT ![i] = s[j], ![j] = s[i]]

\* EventManager::compareTasks: orders the heap so that front() is earliest
compareTasks(a, b) == a.when > b.when

\* std::push_heap: the last element is sifted up
RECURSIVE SiftUp(_, _)
SiftUp(s, i) ==
  IF i > 1 /\ compareTasks(s[i \div 2], s[i])
  THEN SiftUp(Swap(s, i, i \div 2), i \div 2)
  ELSE s

push_heap(s) == SiftUp(s, Len(s))

\* std::pop_heap over the first n elements after the swap: the root is
\* sifted down
RECURSIVE SiftDown(_, _, _)
SiftDown(s, i, n) ==
  LET l == 2 * i
      r == 2 * i + 1
      c == IF r <= n /\ compareTasks(s[l], s[r]) THEN r ELSE l
  IN IF l <= n /\ compareTasks(s[i], s[c])
     THEN SiftDown(Swap(s, i, c), c, n)
     ELSE s

pop_heap(s) == SiftDown(Swap(s, 1, Len(s)), 1, Len(s) - 1)

\* mutant: the push_heap call is left out
PushTaskUnordered(s, t) == Append(s, t)

\* _tasks.push_back(t); push_heap(...)
PushTask(s, t) == push_heap(Append(s, t))

\* mutant: the task is left in the heap
PopTaskKeep(s) == s

\* pop_heap(...); _tasks.pop_back()
PopTask(s) == SubSeq(pop_heap(s), 1, Len(s) - 1)

\* the largest int
IntMax == 2147483647

\* static_cast<int>(secs * 1000): the value, when an int can hold it; else
\* the conversion is undefined, and gives the smallest int on x86 and the
\* nearest int where conversions saturate
CastMillis(secs) ==
  IF secs > IntMax \div 1000 THEN {-IntMax - 1, IntMax}
  ELSE IF secs < -(IntMax \div 1000) THEN {-IntMax - 1}
  ELSE {secs * 1000}

\* mutant: a negative timeout is passed on
ClampOmitted(timeout) == timeout

\* if (timeout < 0) timeout = 0
ClampNegative(timeout) == IF timeout < 0 THEN 0 ELSE timeout

\* the timeouts thread_main can compute, in milliseconds
ComputeTimeout(ts, t) ==
  IF ts # <<>>
  THEN {ClampNegative(timeout) : timeout \in CastMillis(ts[1].when - t)}
  ELSE {kEpollDefaultWait}

\* a deadline so far ahead that its milliseconds do not fit an int
FarWhen == IntMax \div 1000 + 1

\* what the kernel reports for fd: its readiness under the registered mask
Reported(fd) == BitAnd(epoll[fd], IF pipe[fd] > 0 THEN EPOLLIN ELSE 0)

\* the events a level-triggered epoll_wait has to return right now
ReadySet ==
  (IF event_cnt > 0 THEN {<<EventFd, EPOLLIN>>} ELSE {})
    \cup {<<fd, Reported(fd)>> : fd \in {f \in Fds : Reported(f) # 0}}

\* the orders in which the kernel may list a set of events
Orders(S) ==
  LET n == Min(Cardinality(S), kMaxEvents)
  IN {s \in [1..n -> S] : \A i, j \in 1..n : i # j => s[i] # s[j]}

Threads == {MainThread} \cup Workers

\* a second thread of the application, never a worker
OtherThread == MaxWorkers + 1
AllThreads == Threads \cup {OtherThread}

\* a thread that may enter a public operation: a thread of the application,
\* or a worker inside a callback
CanCall(t) ==
  /\ call[t] = NoCall
  /\ t \in Workers => pc[t] \in {"fdcb", "taskcb"}

\* mutant: the mutex is kept
UnlockOmitted(t) == t

\* pthread_mutex_unlock(&_mutex) of thread_main: the owner after it
pthread_mutex_unlock(t) == NoOwner

\* mutant: the wakeup event is not consumed
EventfdReadSkipped(c) == c

\* the eventfd_read of a wakeup event: the counter is reset
eventfd_read(c) == 0

\* mutant: the test of the caller is left out
InRegistryNever(t, set) == FALSE

\* pthread_self() is one of our worker threads
InRegistry(t, set) == t \in set

\* mutant: the deadline is not compared with the clock
TaskDueIgnoringTime(ts, t) == ts # <<>>

\* !_tasks.empty() && _tasks.front().when <= currentTime()
TaskDue(ts, t) == ts # <<>> /\ ts[1].when <= t

\* _fds.find(key) != _fds.end(), in thread_main
Found(tbl, key) == key \in DOMAIN tbl

\* mutant: the duplicate test is left out
WatchExistsNever(tbl, key) == FALSE

\* _fds.find(key) != _fds.end(), in watchFd
WatchExists(tbl, key) == key \in DOMAIN tbl

\* mutant: the presence test is left out
RemoveMissingNever(tbl, key) == FALSE

\* _fds.find(key) == _fds.end(), in removeFd
RemoveMissing(tbl, key) == key \notin DOMAIN tbl

\* epoll_ctl(_epoll_fd, EPOLL_CTL_ADD, fd, &ev): EEXIST, which the code
\* ignores, when fd is in the interest list already
epoll_add(ep, fd, flags) == IF ep[fd] # 0 THEN ep ELSE [ep EXCEPT ![fd] = flags]

\* epoll_ctl(_epoll_fd, EPOLL_CTL_DEL, fd, &ev): the event argument is ignored
epoll_del(ep, fd) == [ep EXCEPT ![fd] = 0]

\* _fds[key] = f
TableSet(tbl, key, f) ==
  [k \in DOMAIN tbl \cup {key} |-> IF k = key THEN f ELSE tbl[k]]

\* mutant: the key is left in the table
TableEraseKeep(tbl, key) == tbl

\* _fds.erase(key)
TableErase(tbl, key) == [k \in DOMAIN tbl \ {key} |-> tbl[k]]

\* pthread ids that pthread_create can hand out
FreeIds == {w \in Workers : pc[w] = "none"}

SetMin(S) == CHOOSE x \in S : \A y \in S : x <= y

Ret(op, v) == [op |-> op, st |-> "ret", val |-> v]

(* ------------------------------- Init --------------------------------- *)
Init ==
  /\ is_running = FALSE
  /\ tasks = <<>>
  /\ fds = <<>>
  /\ thread_set = {}
  /\ mutex = NoOwner
  /\ epoll = [fd \in Fds |-> 0]
  /\ event_cnt = 0
  /\ pipe = [fd \in Fds |-> 0]
  /\ now = 0
  /\ pc = [w \in Workers |-> "none"]
  /\ wakeAt = [w \in Workers |-> 0]
  /\ ret = [w \in Workers |-> 0]
  /\ events = [w \in Workers |-> <<>>]
  /\ idx = [w \in Workers |-> 0]
  /\ cur = [w \in Workers |-> NoCur]
  /\ call = [t \in AllThreads |-> NoCall]
  /\ nextTask = 1
  /\ nextWatch = 1
  /\ ran = [i \in 1..MaxTasks |-> 0]
  /\ fired = [fd \in Fds |-> 0]
  /\ written = [fd \in Fds |-> 0]
  /\ droppedTasks = {}
  /\ droppedFds = {}
  /\ removed = {}
  /\ together = {}

(* ------------------------- EventManager::start ------------------------ *)
StartCall(t, n) ==
  /\ CanCall(t)
  /\ mutex = NoOwner
  /\ t \in thread_set \/ n <= Cardinality(FreeIds)
  /\ mutex' = t
  /\ call' = [call EXCEPT ![t] = [op |-> "start", st |-> "crit", n |-> n]]
  /\ UNCHANGED <<is_running, tasks, fds, thread_set, epoll, event_cnt, pipe,
                 now, pc, wlocals, nextTask, nextWatch, hist>>

StartBody(t) ==
  /\ call[t].op = "start" /\ call[t].st = "crit"
  /\ mutex' = NoOwner
  /\ IF InRegistry(t, thread_set)
     THEN /\ call' = [call EXCEPT ![t] = Ret("start", FALSE)]
          /\ UNCHANGED <<is_running, thread_set, pc>>
     ELSE \E S \in SUBSET FreeIds :
            /\ Cardinality(S) = call[t].n
            /\ is_running' = TRUE
            /\ pc' = [w \in Workers |-> IF w \in S THEN "start" ELSE pc[w]]
            /\ thread_set' = thread_set \cup S
            /\ call' = [call EXCEPT ![t] = Ret("start", TRUE)]
  /\ UNCHANGED <<tasks, fds, epoll, event_cnt, pipe, now, wlocals, nextTask,
                 nextWatch, hist>>

(* ------------------------- EventManager::stop ------------------------- *)
StopCall(t) ==
  /\ CanCall(t)
  /\ mutex = NoOwner
  /\ mutex' = t
  /\ call' = [call EXCEPT ![t] = [op |-> "stop", st |-> "crit"]]
  /\ UNCHANGED <<is_running, tasks, fds, thread_set, epoll, event_cnt, pipe,
                 now, pc, wlocals, nextTask, nextWatch, hist>>

\* mutant: the table is not cleared
ClearFdsKeep(tbl) == tbl

\* _fds.clear()
ClearFds(tbl) == << >>

\* _tasks.clear()
ClearTasks(ts) == << >>

\* mutant: stop() does not signal the eventfd
StopWakeOmitted(c) == c

\* eventfd_write(_event_fd, 1) of stop()
StopWake(c) == eventfd_write(c)

StopBody(t) ==
  /\ call[t].op = "stop" /\ call[t].st = "crit"
  /\ mutex' = NoOwner
  /\ IF InRegistry(t, thread_set)
     THEN /\ call' = [call EXCEPT ![t] = Ret("stop", FALSE)]
          /\ UNCHANGED <<is_running, tasks, fds, thread_set, event_cnt,
                         droppedTasks, droppedFds>>
     ELSE /\ is_running' = FALSE
          /\ fds' = ClearFds(fds)
          /\ tasks' = ClearTasks(tasks)
          /\ droppedFds' = droppedFds \cup {fds[k] : k \in DOMAIN fds}
          /\ droppedTasks' = droppedTasks \cup {tasks[i].id : i \in 1..Len(tasks)}
          /\ event_cnt' = StopWake(event_cnt)
          /\ IF thread_set = {}
             THEN /\ thread_set' = {}
                  /\ call' = [call EXCEPT ![t] = Ret("stop", TRUE)]
             ELSE /\ thread_set' = thread_set
                  /\ call' = [call EXCEPT ![t] =
                       [op |-> "stop", st |-> "join", it |-> SetMin(thread_set)]]
  /\ UNCHANGED <<epoll, pipe, now, pc, wlocals, nextTask, nextWatch, ran,
                 fired, written, removed, together>>

\* pthread_join(*i, NULL) returns once that thread has left thread_main; on
\* a thread that was joined before (undefined) it returns at once
StopJoin(t) ==
  /\ call[t].op = "stop" /\ call[t].st = "join"
  /\ pc[call[t].it] \in {"exited", "none"}
  /\ pc' = [pc EXCEPT ![call[t].it] = "none"]
  /\ call' = [call EXCEPT ![t].st = "joined"]
  /\ UNCHANGED <<is_running, tasks, fds, thread_set, mutex, epoll, event_cnt,
                 pipe, now, wlocals, nextTask, nextWatch, hist>>

StopRelock(t) ==
  /\ call[t].op = "stop" /\ call[t].st = "joined"
  /\ mutex = NoOwner
  /\ mutex' = t
  /\ call' = [call EXCEPT ![t].st = "iter"]
  /\ UNCHANGED <<is_running, tasks, fds, thread_set, epoll, event_cnt, pipe,
                 now, pc, wlocals, nextTask, nextWatch, hist>>

\* where ++i takes the iterator: the next element of the set, or end (0);
\* an iterator whose element another stop() cleared away is invalid
\* (undefined), it walks on to end or to any element the old set had
IterNext(set, it) ==
  IF it \in set
  THEN LET rest == {x \in set : x > it}
       IN IF rest # {} THEN {SetMin(rest)} ELSE {0}
  ELSE {0} \cup {x \in Workers : x > it}

\* ++i; i != _thread_set.end()
StopIter(t) ==
  /\ call[t].op = "stop" /\ call[t].st = "iter"
  /\ mutex' = NoOwner
  /\ \E nxt \in IterNext(thread_set, call[t].it) :
       IF nxt # 0
       THEN /\ call' = [call EXCEPT ![t].st = "join", ![t].it = nxt]
            /\ thread_set' = thread_set
       ELSE /\ call' = [call EXCEPT ![t] = Ret("stop", TRUE)]
            /\ thread_set' = {}
  /\ UNCHANGED <<is_running, tasks, fds, epoll, event_cnt, pipe, now, pc,
                 wlocals, nextTask, nextWatch, hist>>

\* the caller takes the value returned
Return(t) ==
  /\ call[t] # NoCall /\ call[t].st = "ret"
  /\ call' = [call EXCEPT ![t] = NoCall]
  /\ UNCHANGED <<is_running, tasks, fds, thread_set, mutex, epoll, event_cnt,
                 pipe, now, pc, wlocals, nextTask, nextWatch, hist>>

(* ------------------------ EventManager::enqueue ----------------------- *)
EnqueueCall(t, when) ==
  /\ CanCall(t)
  /\ mutex = NoOwner
  /\ nextTask <= MaxTasks
  /\ mutex' = t
  /\ nextTask' = nextTask + 1
  /\ call' = [call EXCEPT ![t] =
       [op |-> "enqueue", st |-> "crit", when |-> when, f |-> nextTask]]
  /\ UNCHANGED <<is_running, tasks, fds, thread_set, epoll, event_cnt, pipe,
                 now, pc, wlocals, nextWatch, hist>>

\* oldwhen != _tasks.front().when
NeedWake(oldwhen, ts) == oldwhen # ts[1].when

EnqueueBody(t) ==
  /\ call[t].op = "enqueue" /\ call[t].st = "crit"
  /\ LET oldwhen == IF tasks = <<>> THEN -1 ELSE tasks[1].when
         pushed == PushTask(tasks, [when |-> call[t].when, id |-> call[t].f])
     IN /\ tasks' = pushed
        /\ event_cnt' = IF NeedWake(oldwhen, pushed)
                        THEN eventfd_write(event_cnt) ELSE event_cnt
  /\ together' = together
       \cup {<<tasks[i].id, call[t].f>> :
               i \in {j \in 1..Len(tasks) : tasks[j].when < call[t].when}}
       \cup {<<call[t].f, tasks[i].id>> :
               i \in {j \in 1..Len(tasks) : call[t].when < tasks[j].when}}
  /\ mutex' = NoOwner
  /\ call' = [call EXCEPT ![t] = NoCall]
  /\ UNCHANGED <<is_running, fds, thread_set, epoll, pipe, now, pc, wlocals,
                 nextTask, nextWatch, ran, fired, written, droppedTasks,
                 droppedFds, removed>>

(* ------------------------ EventManager::watchFd ----------------------- *)
WatchCall(t, fd, flags) ==
  /\ CanCall(t)
  /\ mutex = NoOwner
  /\ nextWatch <= MaxWatch
  /\ mutex' = t
  /\ nextWatch' = nextWatch + 1
  /\ call' = [call EXCEPT ![t] =
       [op |-> "watchFd", st |-> "crit", fd |-> fd, flags |-> flags,
        f |-> nextWatch]]
  /\ UNCHANGED <<is_running, tasks, fds, thread_set, epoll, event_cnt, pipe,
                 now, pc, wlocals, nextTask, hist>>

WatchBody(t) ==
  /\ call[t].op = "watchFd" /\ call[t].st = "crit"
  /\ mutex' = NoOwner
  /\ LET key == <<call[t].fd, call[t].flags>>
     IN IF WatchExists(fds, key)
        THEN /\ call' = [call EXCEPT ![t] = Ret("watchFd", FALSE)]
             /\ UNCHANGED <<fds, epoll, event_cnt>>
        ELSE /\ epoll' = epoll_add(epoll, call[t].fd, call[t].flags)
             /\ fds' = TableSet(fds, key, call[t].f)
             /\ event_cnt' = eventfd_write(event_cnt)
             /\ call' = [call EXCEPT ![t] = Ret("watchFd", TRUE)]
  /\ UNCHANGED <<is_running, tasks, thread_set, pipe, now, pc, wlocals,
                 nextTask, nextWatch, hist>>

(* ------------------------ EventManager::removeFd ---------------------- *)
RemoveCall(t, fd, flags) ==
  /\ CanCall(t)
  /\ mutex = NoOwner
  /\ mutex' = t
  /\ call' = [call EXCEPT ![t] =
       [op |-> "removeFd", st |-> "crit", fd |-> fd, flags |-> flags]]
  /\ UNCHANGED <<is_running, tasks, fds, thread_set, epoll, event_cnt, pipe,
                 now, pc, wlocals, nextTask, nextWatch, hist>>

RemoveBody(t) ==
  /\ call[t].op = "removeFd" /\ call[t].st = "crit"
  /\ mutex' = NoOwner
  /\ LET key == <<call[t].fd, call[t].flags>>
     IN IF RemoveMissing(fds, key)
        THEN /\ call' = [call EXCEPT ![t] = Ret("removeFd", FALSE)]
             /\ UNCHANGED <<fds, epoll, removed>>
        ELSE /\ epoll' = epoll_del(epoll, call[t].fd)
             /\ fds' = TableErase(fds, key)
             /\ removed' = removed \cup {fds[k] : k \in DOMAIN fds \cap {key}}
             /\ call' = [call EXCEPT ![t] = Ret("removeFd", TRUE)]
  /\ UNCHANGED <<is_running, tasks, thread_set, event_cnt, pipe, now, pc,
                 wlocals, nextTask, nextWatch, ran, fired, written,
                 droppedTasks, droppedFds, together>>

(* ---------------------- EventManager::thread_main --------------------- *)
\* mutant: a worker leaves without signalling the eventfd
ExitWakeOmitted(c) == c

\* eventfd_write(_event_fd, 1) at the end of thread_main
ExitWake(c) == eventfd_write(c)

\* while (_is_running) { compute the timeout; unlock; epoll_wait ... }, or
\* the exit: eventfd_write; unlock.  c is the eventfd counter on arrival.
LoopHead(w, c) ==
  IF is_running
  THEN /\ pc' = [pc EXCEPT ![w] = "wait"]
       /\ \E timeout \in ComputeTimeout(tasks, now) :
            wakeAt' = [wakeAt EXCEPT ![w] = now + (timeout \div 1000)]
       /\ event_cnt' = c
  ELSE /\ pc' = [pc EXCEPT ![w] = "exited"]
       /\ wakeAt' = [wakeAt EXCEPT ![w] = 0]
       /\ event_cnt' = ExitWake(c)

\* while (!_tasks.empty() && front().when <= currentTime()): copy the task,
\* pop it, unlock, to call it; the loop head once no task is due
TimerPhase(w, c) ==
  IF TaskDue(tasks, now)
  THEN /\ cur' = [cur EXCEPT ![w] =
            [kind |-> "task", id |-> tasks[1].id, when |-> tasks[1].when]]
       /\ tasks' = PopTask(tasks)
       /\ pc' = [pc EXCEPT ![w] = "taskcall"]
       /\ event_cnt' = c
       /\ wakeAt' = wakeAt
  ELSE /\ cur' = [cur EXCEPT ![w] = NoCur]
       /\ tasks' = tasks
       /\ LoopHead(w, c)

\* for (i..ret): the first event from position i on whose key is in the
\* table; a wakeup event met on the way resets the counter c
RECURSIVE Scan(_, _, _, _)
Scan(tbl, ev, i, c) ==
  IF i > Len(ev) THEN [hit |-> FALSE, i |-> i, c |-> c]
  ELSE IF Found(tbl, ev[i]) THEN [hit |-> TRUE, i |-> i, c |-> c]
  ELSE IF ev[i][1] = EventFd THEN Scan(tbl, ev, i + 1, eventfd_read(c))
  ELSE Scan(tbl, ev, i + 1, c)

\* pthread_mutex_lock at the top of thread_main and after epoll_wait
ThreadLock(w) ==
  /\ pc[w] \in {"start", "woke"}
  /\ mutex = NoOwner
  /\ mutex' = w
  /\ pc' = [pc EXCEPT ![w] = IF pc[w] = "start" THEN "enter" ELSE "dispatch"]
  /\ UNCHANGED <<is_running, tasks, fds, thread_set, epoll, event_cnt, pipe,
                 now, wlocals, call, nextTask, nextWatch, hist>>

\* the first test of the loop condition
ThreadEnter(w) ==
  /\ pc[w] = "enter"
  /\ mutex' = pthread_mutex_unlock(w)
  /\ LoopHead(w, event_cnt)
  /\ UNCHANGED <<is_running, tasks, fds, thread_set, epoll, pipe, now, ret,
                 events, idx, cur, call, nextTask, nextWatch, hist>>

\* epoll_wait returns what is ready, or 0 once the timeout has passed
EpollReturn(w) ==
  /\ pc[w] = "wait"
  /\ IF ReadySet # {}
     THEN \E o \in Orders(ReadySet) :
            /\ events' = [events EXCEPT ![w] = o]
            /\ ret' = [ret EXCEPT ![w] = Len(o)]
     ELSE /\ now >= wakeAt[w]
          /\ events' = [events EXCEPT ![w] = <<>>]
          /\ ret' = [ret EXCEPT ![w] = 0]
  /\ pc' = [pc EXCEPT ![w] = "woke"]
  /\ wakeAt' = [wakeAt EXCEPT ![w] = 0]
  /\ UNCHANGED <<is_running, tasks, fds, thread_set, mutex, epoll, event_cnt,
                 pipe, now, idx, cur, call, nextTask, nextWatch, hist>>

\* epoll_wait fails (EINTR): ret < 0
EpollError(w) ==
  /\ pc[w] = "wait"
  /\ events' = [events EXCEPT ![w] = <<>>]
  /\ ret' = [ret EXCEPT ![w] = -1]
  /\ pc' = [pc EXCEPT ![w] = "woke"]
  /\ wakeAt' = [wakeAt EXCEPT ![w] = 0]
  /\ UNCHANGED <<is_running, tasks, fds, thread_set, mutex, epoll, event_cnt,
                 pipe, now, idx, cur, call, nextTask, nextWatch, hist>>

\* with the mutex held: continue on ret < 0, else the fd handlers from
\* event i on, then the timer phase
ThreadDispatch(w) ==
  /\ pc[w] = "dispatch"
  /\ mutex' = pthread_mutex_unlock(w)
  /\ IF ret[w] < 0
     THEN /\ LoopHead(w, event_cnt)
          /\ ret' = [ret EXCEPT ![w] = 0]
          /\ UNCHANGED <<tasks, cur, events, idx>>
     ELSE LET r == Scan(fds, events[w], idx[w] + 1, event_cnt)
          IN IF r.hit
             THEN /\ cur' = [cur EXCEPT ![w] =
                      [kind |-> "fd", fd |-> events[w][r.i][1],
                       ev |-> events[w][r.i][2], f |-> fds[events[w][r.i]]]]
                  /\ idx' = [idx EXCEPT ![w] = r.i]
                  /\ pc' = [pc EXCEPT ![w] = "fdcall"]
                  /\ event_cnt' = r.c
                  /\ UNCHANGED <<tasks, wakeAt, ret, events>>
             ELSE /\ TimerPhase(w, r.c)
                  /\ events' = [events EXCEPT ![w] = <<>>]
                  /\ idx' = [idx EXCEPT ![w] = 0]
                  /\ ret' = [ret EXCEPT ![w] = 0]
  /\ UNCHANGED <<is_running, fds, thread_set, epoll, pipe, now, call,
                 nextTask, nextWatch, hist>>

\* f(events[i].events) is entered; the callback of a readable descriptor
\* reads one byte of it
FdCallbackBegin(w) ==
  /\ pc[w] = "fdcall"
  /\ pc' = [pc EXCEPT ![w] = "fdcb"]
  /\ fired' = [fired EXCEPT ![cur[w].fd] = @ + 1]
  /\ pipe' = [pipe EXCEPT ![cur[w].fd] =
       IF BitAnd(cur[w].ev, EPOLLIN) # 0 /\ @ > 0 THEN @ - 1 ELSE @]
  /\ UNCHANGED <<is_running, tasks, fds, thread_set, mutex, epoll, event_cnt,
                 now, wlocals, call, nextTask, nextWatch, ran, written,
                 droppedTasks, droppedFds, removed, together>>

\* t.f() is entered
TaskCallbackBegin(w) ==
  /\ pc[w] = "taskcall"
  /\ pc' = [pc EXCEPT ![w] = "taskcb"]
  /\ ran' = [ran EXCEPT ![cur[w].id] = @ + 1]
  /\ UNCHANGED <<is_running, tasks, fds, thread_set, mutex, epoll, event_cnt,
                 pipe, now, wlocals, call, nextTask, nextWatch, fired, written,
                 droppedTasks, droppedFds, removed, together>>

\* the callback returns and the worker takes the mutex again
CallbackReturn(w) ==
  /\ pc[w] \in {"fdcb", "taskcb"}
  /\ call[w] = NoCall
  /\ mutex = NoOwner
  /\ mutex' = w
  /\ pc' = [pc EXCEPT ![w] = IF pc[w] = "fdcb" THEN "dispatch" ELSE "timer"]
  /\ cur' = [cur EXCEPT ![w] = NoCur]
  /\ UNCHANGED <<is_running, tasks, fds, thread_set, epoll, event_cnt, pipe,
                 now, wakeAt, ret, events, idx, call, nextTask, nextWatch,
                 hist>>

\* the timer loop goes on after a task
ThreadTimer(w) ==
  /\ pc[w] = "timer"
  /\ mutex' = pthread_mutex_unlock(w)
  /\ TimerPhase(w, event_cnt)
  /\ UNCHANGED <<is_running, fds, thread_set, epoll, pipe, now, ret, events,
                 idx, call, nextTask, nextWatch, hist>>

(* ---------------------------- environment ----------------------------- *)
\* a byte is written to the other end of a watched pipe
WriteByte(fd) ==
  /\ written[fd] < MaxBytes
  /\ written' = [written EXCEPT ![fd] = @ + 1]
  /\ pipe' = [pipe EXCEPT ![fd] = @ + 1]
  /\ UNCHANGED <<is_running, tasks, fds, thread_set, mutex, epoll, event_cnt,
                 now, pc, wlocals, call, nextTask, nextWatch, ran, fired,
                 droppedTasks, droppedFds, removed, together>>

\* the wall clock advances
Tick ==
  /\ now < MaxTicks * TickSec
  /\ now' = now + TickSec
  /\ UNCHANGED <<is_running, tasks, fds, thread_set, mutex, epoll, event_cnt,
                 pipe, pc, wlocals, call, nextTask, nextWatch, hist>>

(* --------------------------- specifications --------------------------- *)
\* the loop of thread_main
Loop(w) ==
  \/ ThreadLock(w)
  \/ ThreadEnter(w)
  \/ EpollReturn(w)
  \/ EpollError(w)
  \/ ThreadDispatch(w)
  \/ CallbackReturn(w)

\* its timer phase
Timers(w) ==
  \/ TaskCallbackBegin(w)
  \/ ThreadTimer(w)

\* start and stop, from any thread
Lifecycle(t) ==
  \/ \E n \in 1..MaxWorkers : StartCall(t, n)
  \/ StartBody(t)
  \/ StopCall(t)
  \/ StopBody(t)
  \/ StopJoin(t)
  \/ StopRelock(t)
  \/ StopIter(t)
  \/ Return(t)

\* The reactor's life: the application starts and stops it, schedules tasks
\* that are due or not, watches a pipe that is written to; callbacks call
\* start and stop.
Next ==
  \/ \E w \in Workers : Loop(w)
  \/ \E w \in Workers : Timers(w)
  \/ \E w \in Workers : FdCallbackBegin(w)
  \/ \E t \in Threads : Lifecycle(t)
  \/ \E when \in {0, TickSec} :
       nextTask <= LifeTasks /\ EnqueueCall(MainThread, when)
  \/ EnqueueBody(MainThread)
  \/ \E fd \in Fds : WatchCall(MainThread, fd, EPOLLIN)
  \/ WatchBody(MainThread)
  \/ \E fd \in Fds : WriteByte(fd)
  \/ Tick

Spec == Init /\ [][Next]_vars

\* The timer queue of a started reactor: tasks are scheduled by the
\* application and by running tasks, the clock advances.
NextTimers ==
  \/ \E w \in Workers : Loop(w)
  \/ \E w \in Workers : Timers(w)
  \/ \E n \in 1..MaxWorkers : StartCall(MainThread, n)
  \/ StartBody(MainThread)
  \/ Return(MainThread)
  \/ \E t \in Threads, when \in Whens : EnqueueCall(t, when)
  \/ \E t \in Threads : EnqueueBody(t)
  \/ Tick

SpecTimers == Init /\ [][NextTimers]_vars

\* The watch table of a started reactor: descriptors are watched and
\* unwatched by the application and by running callbacks, the pipe is
\* written to.
NextWatch ==
  \/ \E w \in Workers : Loop(w)
  \/ \E w \in Workers : FdCallbackBegin(w)
  \/ \E n \in 1..MaxWorkers : StartCall(MainThread, n)
  \/ StartBody(MainThread)
  \/ \E t \in Threads : Return(t)
  \/ \E t \in Threads, fd \in Fds, flags \in Masks : WatchCall(t, fd, flags)
  \/ \E t \in Threads : WatchBody(t)
  \/ \E t \in Threads, fd \in Fds, flags \in Masks : RemoveCall(t, fd, flags)
  \/ \E t \in Threads : RemoveBody(t)
  \/ \E fd \in Fds : WriteByte(fd)

SpecWatch == Init /\ [][NextWatch]_vars

\* The reactor's life with callbacks that return without calling start or
\* stop, under fair scheduling of the threads: a thread that can take a step
\* of thread_main, or finish the call it is in, eventually does.  The clock
\* stands still, so that no wait with a timeout ends by it, and the failure
\* of epoll_wait is not forced.
NextLive ==
  \/ \E w \in Workers : Loop(w)
  \/ \E w \in Workers : Timers(w)
  \/ \E w \in Workers : FdCallbackBegin(w)
  \/ Lifecycle(MainThread)
  \/ \E when \in {0, TickSec} :
       nextTask <= LifeTasks /\ EnqueueCall(MainThread, when)
  \/ EnqueueBody(MainThread)
  \/ \E fd \in Fds : WatchCall(MainThread, fd, EPOLLIN)
  \/ WatchBody(MainThread)
  \/ \E fd \in Fds : WriteByte(fd)

Fairness ==
  /\ \A w \in Workers :
       /\ WF_vars(ThreadLock(w))
       /\ WF_vars(ThreadEnter(w))
       /\ WF_vars(EpollReturn(w))
       /\ WF_vars(ThreadDispatch(w))
       /\ WF_vars(TaskCallbackBegin(w))
       /\ WF_vars(FdCallbackBegin(w))
       /\ WF_vars(CallbackReturn(w))
       /\ WF_vars(ThreadTimer(w))
  /\ WF_vars(StartBody(MainThread))
  /\ WF_vars(StopBody(MainThread))
  /\ WF_vars(StopJoin(MainThread))
  /\ WF_vars(StopRelock(MainThread))
  /\ WF_vars(StopIter(MainThread))
  /\ WF_vars(EnqueueBody(MainThread))
  /\ WF_vars(WatchBody(MainThread))

SpecLive == Init /\ [][NextLive]_vars /\ Fairness

\* A shutdown with callers: the application starts and stops the reactor
\* from one thread, while a second thread of the application and the running
\* callbacks schedule tasks that are due, watch and unwatch a pipe that is
\* written to.
Callers == Workers \cup {OtherThread}

NextShutdown ==
  \/ \E w \in Workers : Loop(w)
  \/ \E w \in Workers : Timers(w)
  \/ \E w \in Workers : FdCallbackBegin(w)
  \/ Lifecycle(MainThread)
  \/ \E t \in Callers : nextTask <= LifeTasks /\ EnqueueCall(t, 0)
  \/ \E t \in Callers : EnqueueBody(t)
  \/ \E t \in Callers, fd \in Fds : WatchCall(t, fd, EPOLLIN)
  \/ \E t \in Callers : WatchBody(t)
  \/ \E w \in Workers, fd \in Fds : RemoveCall(w, fd, EPOLLIN)
  \/ \E w \in Workers : RemoveBody(w)
  \/ \E t \in Callers : Return(t)
  \/ \E fd \in Fds : WriteByte(fd)

SpecShutdown == Init /\ [][NextShutdown]_vars

\* Two threads of the application start and stop the reactor, each at its
\* own pace; no task is scheduled and nothing is watched.
NextStops ==
  \/ \E w \in Workers : ThreadLock(w)
  \/ \E w \in Workers : ThreadEnter(w)
  \/ \E w \in Workers : EpollReturn(w)
  \/ \E w \in Workers : EpollError(w)
  \/ \E w \in Workers : ThreadDispatch(w)
  \/ Lifecycle(MainThread)
  \/ Lifecycle(OtherThread)
  \/ Tick

SpecStops == Init /\ [][NextStops]_vars

\* The timer queue with deadlines that are past, near and far: the
\* application schedules the tasks, the clock advances.
NextFar ==
  \/ \E w \in Workers : Loop(w)
  \/ \E w \in Workers : Timers(w)
  \/ \E n \in 1..MaxWorkers : StartCall(MainThread, n)
  \/ StartBody(MainThread)
  \/ Return(MainThread)
  \/ \E when \in Whens \cup {FarWhen} : EnqueueCall(MainThread, when)
  \/ EnqueueBody(MainThread)
  \/ Tick

SpecFar == Init /\ [][NextFar]_vars

(* ------------------------------- claims -------------------------------- *)
Alive == {w \in Workers : pc[w] # "none"}

\* C1: a stop() entered by a thread that is no worker eventually returns
\* true, with every worker thread out of thread_main and joined, whatever
\* the workers are doing and without any help of the clock.
C1_StopTerminates ==
  (call[MainThread].op = "stop" /\ call[MainThread].st = "crit")
    ~> (call[MainThread] = Ret("stop", TRUE) /\ Alive = {})

\* C1 witness: stop() has joined the two workers it found and holds the
\* mutex to clear the registry and return.
C1_Witness ==
  /\ call[MainThread] = [op |-> "stop", st |-> "iter", it |-> 2]
  /\ thread_set = {1, 2}
  /\ Alive = {}

\* C2: the critical section of a start() or stop() entered by a thread of
\* the registry ends with the return of false and leaves _is_running, the
\* heap, the table, the registry and the eventfd counter as they were.
C2_WorkerCallRefused ==
  [][\A t \in Threads :
       (/\ call[t].op \in {"start", "stop"}
        /\ call[t].st = "crit"
        /\ t \in thread_set
        /\ call'[t] # call[t])
       => /\ call'[t] = Ret(call[t].op, FALSE)
          /\ UNCHANGED <<is_running, tasks, fds, thread_set, event_cnt>>]_vars

\* C2 witness: one worker got false from stop() and another from start(),
\* both inside callbacks of a running reactor.
C2_Witness ==
  \E w1, w2 \in thread_set :
    /\ call[w1] = Ret("stop", FALSE)
    /\ call[w2] = Ret("start", FALSE)
    /\ is_running

\* C3: a worker that has taken a task out of the heap to call it holds a
\* task whose deadline is not later than the clock.
C3_NotBeforeDeadline ==
  \A w \in Workers :
    pc[w] \in {"taskcall", "taskcb"} => cur[w].when <= now

\* C3 witness: a task with a deadline after the start of the clock runs at
\* its deadline.
C3_Witness ==
  \E w \in Workers : pc[w] = "taskcb" /\ cur[w].when = now /\ now > 0

\* C4: no task is invoked more than once.
C4_AtMostOnce == \A i \in 1..MaxTasks : ran[i] <= 1

\* C4 witness: two workers run two tasks at the same time, a third task ran.
C4_Witness ==
  /\ \E w1, w2 \in Workers :
       /\ w1 # w2
       /\ pc[w1] = "taskcb" /\ pc[w2] = "taskcb"
       /\ cur[w1].id # cur[w2].id
  /\ \A i \in 1..MaxTasks : ran[i] = 1

\* a task that some worker has taken out of the heap
Popped(i) ==
  \/ ran[i] > 0
  \/ \E w \in Workers : cur[w].kind = "task" /\ cur[w].id = i

\* C5, as claimed: of two tasks with distinct deadlines that were in the heap
\* together, the callback of the later one has not begun unless the callback
\* of the earlier one has.
C5_BeginInDeadlineOrder ==
  \A p \in together : ran[p[2]] > 0 => ran[p[1]] > 0

\* C5, amended: of two tasks with distinct deadlines that were in the heap
\* together, the later one is not taken out of the heap before the earlier
\* one; and while there is at most one worker thread, their callbacks begin
\* in that order.
C5_PoppedInDeadlineOrder ==
  /\ \A p \in together : Popped(p[2]) => Popped(p[1])
  /\ Cardinality(Alive) <= 1 => C5_BeginInDeadlineOrder

\* C5 witness: three tasks enqueued latest deadline first, earliest second,
\* all run.
C5_Witness ==
  /\ {<<2, 3>>, <<3, 1>>} \subseteq together
  /\ \A i \in 1..3 : ran[i] = 1

\* a sleeping or awake worker that gets to the pending task ts in time
Covers(w, t) ==
  \/ pc[w] \notin {"none", "exited", "wait"}
  \/ pc[w] = "wait" /\ (wakeAt[w] <= t.when \/ wakeAt[w] <= now)

\* C6, as claimed: in a running reactor with a worker, every task in the heap
\* that is due has the eventfd counter pending, or a worker that is awake, or
\* a worker whose wait ends no later than the task's deadline.
C6_NoLostWakeup ==
  (is_running /\ thread_set # {}) =>
    \A i \in 1..Len(tasks) :
      tasks[i].when <= now =>
        \/ event_cnt > 0
        \/ \E w \in thread_set : Covers(w, tasks[i])

\* C7, as claimed: stop() from the application returns true; no task and no
\* watch callback that stop() cleared is entered after that; the start()
\* after it returns true with the reactor running and n new workers.
StopReturnsTrue ==
  /\ (/\ call[MainThread].op = "stop"
      /\ call[MainThread].st # "ret"
      /\ call'[MainThread].st = "ret")
     => /\ call'[MainThread].val = TRUE
        /\ thread_set' = {}
        /\ \A w \in Workers : pc'[w] = "none"

RestartWorks ==
  (/\ call[MainThread].op = "start"
   /\ call[MainThread].st = "crit"
   /\ call'[MainThread] # call[MainThread])
  => /\ call'[MainThread] = Ret("start", TRUE)
     /\ is_running'
     /\ Cardinality(thread_set') = Cardinality(thread_set) + call[MainThread].n
     /\ \A w \in thread_set' \ thread_set : pc'[w] = "start"

C7_NothingClearedIsEntered ==
  [][/\ StopReturnsTrue
     /\ RestartWorks
     /\ \A w \in Workers :
          /\ (pc[w] = "taskcall" /\ pc'[w] = "taskcb")
               => cur[w].id \notin droppedTasks
          /\ (pc[w] = "fdcall" /\ pc'[w] = "fdcb")
               => cur[w].f \notin droppedFds]_vars

\* C7, amended: stop() from the application returns true, with every worker
\* joined; no task and no watch callback that stop() cleared is taken out of
\* the heap or looked up in the table after that, and no cleared task is
\* entered (a watch callback that a worker had looked up before stop() took
\* the mutex may still be entered, before stop() returns); the start() after
\* it returns true with the reactor running and n new workers.
C7_NothingClearedIsFetched ==
  [][/\ StopReturnsTrue
     /\ RestartWorks
     /\ \A w \in Workers :
          /\ (pc[w] = "taskcall" /\ pc'[w] = "taskcb")
               => cur[w].id \notin droppedTasks
          /\ (pc[w] # "taskcall" /\ pc'[w] = "taskcall")
               => cur'[w].id \notin droppedTasks'
          /\ (pc[w] # "fdcall" /\ pc'[w] = "fdcall")
               => cur'[w].f \notin droppedFds']_vars

\* C7 witness: the one watch, whose callback was entered once for the one
\* byte, and a task have been cleared by stop(), and the start() after it
\* has returned true with two workers.
C7_Witness ==
  /\ droppedTasks # {} /\ droppedFds # {}
  /\ \E fd \in Fds : fired[fd] = 1 /\ written[fd] = 1
  /\ nextWatch = 2
  /\ call[MainThread] = Ret("start", TRUE)
  /\ is_running
  /\ Cardinality(thread_set) = 2

\* C8, as claimed: the callbacks of a descriptor are entered at most once
\* per byte written to it.
C8_OncePerByte == \A fd \in Fds : fired[fd] <= written[fd]

\* C9: the critical section of a watchFd() whose key is in the table ends
\* with the return of false and leaves the table, the interest list of the
\* epoll instance and the eventfd counter as they were.
C9_DuplicateWatchRefused ==
  [][\A t \in Threads :
       (/\ call[t].op = "watchFd"
        /\ call[t].st = "crit"
        /\ <<call[t].fd, call[t].flags>> \in DOMAIN fds
        /\ call'[t] # call[t])
       => /\ call'[t] = Ret("watchFd", FALSE)
          /\ UNCHANGED <<fds, epoll, event_cnt>>]_vars

\* C9 witness: a second watchFd() of a key has returned false and the table
\* holds the first callback.
C9_Witness ==
  \E t \in Threads :
    /\ call[t] = Ret("watchFd", FALSE)
    /\ \E k \in DOMAIN fds : fds[k] = 1
    /\ nextWatch = 3

\* C10: the critical section of a removeFd() whose key is not in the table
\* ends with the return of false and leaves the table, the interest list of
\* the epoll instance, the heap and the eventfd counter as they were.
C10_MissingRemoveRefused ==
  [][\A t \in Threads :
       (/\ call[t].op = "removeFd"
        /\ call[t].st = "crit"
        /\ <<call[t].fd, call[t].flags>> \notin DOMAIN fds
        /\ call'[t] # call[t])
       => /\ call'[t] = Ret("removeFd", FALSE)
          /\ UNCHANGED <<fds, epoll, tasks, event_cnt>>]_vars

\* C10 witness: a removeFd() has returned false while the descriptor is
\* watched, and registered, under the other mask.
C10_Witness ==
  \E t \in Threads, fd \in Fds :
    /\ call[t] = Ret("removeFd", FALSE)
    /\ epoll[fd] # 0
    /\ DOMAIN fds # {}

\* C11: a worker that is blocked in epoll_wait, or has a callback to call or
\* running that is not inside the critical section of a public operation,
\* does not own the mutex, and neither does a thread that stop() has blocked
\* in pthread_join; so the mutex a callback asks for is never its own.
C11_MutexFreeWhileBlocked ==
  /\ \A w \in Workers :
       (/\ pc[w] \in {"wait", "woke", "fdcall", "fdcb", "taskcall", "taskcb"}
        /\ (call[w] = NoCall \/ call[w].st # "crit"))
       => mutex # w
  /\ \A t \in AllThreads :
       (call[t].op = "stop" /\ call[t].st \in {"join", "joined"}) => mutex # t

\* C11 witness: while stop() is blocked in pthread_join and a worker in
\* epoll_wait, a watch callback is inside removeFd and owns the mutex.
C11_Witness ==
  \E w1, w2 \in Workers :
    /\ pc[w1] = "fdcb" /\ call[w1].op = "removeFd" /\ call[w1].st = "crit"
    /\ mutex = w1
    /\ pc[w2] = "wait"
    /\ call[MainThread].op = "stop" /\ call[MainThread].st = "join"

\* C12, as claimed: the step by which a stop() returns true leaves the
\* registry empty and no worker thread inside thread_main.
C12_StopLeavesNoWorker ==
  [][\A t \in AllThreads :
       (call[t].op = "stop" /\ call[t].st # "ret"
        /\ call'[t] = Ret("stop", TRUE))
       => /\ thread_set' = {}
          /\ \A w \in Workers : pc'[w] \in {"none", "exited"}]_vars

\* C19, as claimed: pthread_join returns only for a thread that had not been
\* joined before, and a thread id leaves the registry only once its thread
\* has been joined.
C19_JoinedOnceBeforeRemoval ==
  [][/\ \A t \in AllThreads :
          (call[t].op = "stop" /\ call[t].st = "join"
           /\ call'[t].st = "joined")
          => pc[call[t].it] = "exited"
     /\ \A w \in thread_set \ thread_set' : pc[w] = "none"]_vars

\* C13: once stop() has cleared _is_running, signalled the eventfd and gone
\* to join the workers, every worker eventually is out of thread_main, with
\* the clock standing still so that no wait ends by its timeout.
C13_ShutdownPropagates ==
  (call[MainThread].op = "stop" /\ call[MainThread].st = "join")
    ~> (\A w \in Workers : pc[w] \in {"none", "exited"})

\* C13 witness: with nothing scheduled or watched, one worker has drained
\* the signal of stop() and left with a signal of its own, which is pending
\* for the other worker, still in epoll_wait.
C13_Witness ==
  /\ call[MainThread].op = "stop" /\ call[MainThread].st = "join"
  /\ nextTask = 1 /\ nextWatch = 1
  /\ event_cnt = 1
  /\ \E w1, w2 \in Workers : pc[w1] = "exited" /\ pc[w2] = "wait"

\* C14, as claimed: every key (fd, flags) of the watch table has fd in the
\* interest list of the epoll instance with exactly the mask flags.
C14_TableKeysArmed ==
  \A k \in DOMAIN fds : epoll[k[1]] = k[2]

\* C15, as claimed: the critical section of enqueue(f, when) adds one to the
\* eventfd counter (as far as the counter can take it) if the heap was empty
\* or when is strictly earlier than the earliest deadline in it, and leaves
\* the counter alone otherwise.
C15_SignalIffEarlier ==
  [][\A t \in AllThreads :
       (call[t].op = "enqueue" /\ call[t].st = "crit"
        /\ call'[t] # call[t])
       => IF tasks = <<>> \/ call[t].when < tasks[1].when
          THEN event_cnt' = eventfd_write(event_cnt)
          ELSE event_cnt' = event_cnt]_vars

\* the events a worker passes over without a callback from position i to j
Passed(w, i, j) == {events[w][n] : n \in i..j}

\* C16: the dispatch of a worker stops at the first event whose exact key
\* (descriptor, reported mask) is in the table, with the callback stored
\* under that key and the reported mask as its argument; the events it
\* passes over have no such key and get no callback; a wakeup event among
\* them resets the eventfd counter and nothing else.
C16_ExactKeyDispatch ==
  [][\A w \in Workers :
       (pc[w] = "dispatch" /\ ret[w] >= 0 /\ pc'[w] # "dispatch")
       => LET last == IF pc'[w] = "fdcall" THEN idx'[w] - 1 ELSE Len(events[w])
              over == Passed(w, idx[w] + 1, last)
          IN /\ \A e \in over : e \notin DOMAIN fds
             /\ pc'[w] = "fdcall" =>
                  LET e == events[w][idx'[w]]
                  IN /\ e \in DOMAIN fds
                     /\ cur'[w] = [kind |-> "fd", fd |-> e[1], ev |-> e[2],
                                    f |-> fds[e]]
             /\ event_cnt' = IF \E e \in over : e[1] = EventFd
                              THEN 0 ELSE event_cnt
             /\ UNCHANGED <<fds, fired>>]_vars

\* C16 witness: a worker has passed over the wakeup event, which it drained,
\* and has fetched the callback stored under the exact key of the next
\* event, the readable pipe, while the pipe is also watched for writing.
C16_Witness ==
  \E w \in Workers :
    /\ pc[w] = "fdcall" /\ idx[w] = 2
    /\ events[w] = <<(<<EventFd, EPOLLIN>>), (<<1, EPOLLIN>>)>>
    /\ event_cnt = 0
    /\ DOMAIN fds = {<<1, EPOLLIN>>, <<1, EPOLLOUT>>}
    /\ cur[w].f = fds[<<1, EPOLLIN>>] /\ cur[w].ev = EPOLLIN

\* C17: the timeout with which a worker goes into epoll_wait is not
\* negative; it is the default wait when the heap is empty and, when it is
\* not, no more than the time left to the earliest deadline, or 0 if that
\* deadline has passed; also for a deadline whose distance in milliseconds
\* no int can hold.  (In whole seconds, which all times of the model are.)
C17_TimeoutInRange ==
  [][\A w \in Workers :
       (pc[w] # "wait" /\ pc'[w] = "wait")
       => LET secs == wakeAt'[w] - now
          IN /\ secs >= 0
             /\ secs * 1000 <= IntMax
             /\ tasks' = <<>> => secs * 1000 = kEpollDefaultWait
             /\ tasks' # <<>> =>
                  secs <= (IF tasks'[1].when > now
                           THEN tasks'[1].when - now ELSE 0)]_vars

\* C17 witness: with the far deadline the earliest of the heap, one worker
\* waits the longest time an int can hold and the other does not wait.
C17_Witness ==
  /\ tasks # <<>> /\ tasks[1].when = FarWhen
  /\ \E w1, w2 \in Workers :
       /\ pc[w1] = "wait" /\ wakeAt[w1] = now + IntMax \div 1000
       /\ pc[w2] = "wait" /\ wakeAt[w2] = now

\* C18, as claimed: once every removeFd() that returned true has returned,
\* no worker enters a callback that removeFd erased from the table.
C18_RemovedNeverEntered ==
  [][\A w \in Workers :
       (pc[w] = "fdcall" /\ pc'[w] = "fdcb")
       => \/ cur[w].f \notin removed
          \/ \E t \in AllThreads : call[t] = Ret("removeFd", TRUE)]_vars

\* C18, amended: from the moment removeFd() has erased a callback, no worker
\* fetches it from the table, whatever events its epoll_wait had returned;
\* a callback that is entered after that is one a worker had fetched before.
C18_RemovedNeverFetched ==
  [][\A w \in Workers :
       (pc[w] # "fdcall" /\ pc'[w] = "fdcall")
       => cur'[w].f \notin removed']_vars

\* C18 witness: removeFd() has returned true; a worker that had fetched the
\* callback before is running it, and the other worker, back from epoll_wait
\* with an event for the erased key, is about to look it up.
C18_Witness ==
  \E w1, w2 \in Workers :
    /\ removed = {1} /\ fds = << >>
    /\ \A t \in AllThreads : call[t] = NoCall
    /\ pc[w1] = "fdcb" /\ cur[w1].f = 1
    /\ pc[w2] = "dispatch" /\ idx[w2] = 0
    /\ events[w2] = <<(<<1, EPOLLIN>>)>>

\* stop() of the application thread is between its clear and its return
Stopping ==
  /\ call[MainThread].op = "stop"
  /\ call[MainThread].st \in {"join", "joined", "iter"}

\* C20, as claimed: between the clear of stop() and its return no worker
\* enters a task or a watch callback, and the step by which stop() returns
\* true leaves the heap and the table empty.
C20_QuietUntilStopReturns ==
  [][/\ \A w \in Workers :
          (Stopping /\ pc[w] # pc'[w]) => pc'[w] \notin {"taskcb", "fdcb"}
     /\ (Stopping /\ call'[MainThread] = Ret("stop", TRUE))
          => (tasks' = << >> /\ fds' = << >>)]_vars

====
